---- MODULE Spec2Model ----
(***************************************************************************)
(* Backtesting core of analize_stacks: the Portfolio ledger                *)
(* (src/src/portfolio.py), the three strategies (src/src/strategy.py) and  *)
(* the BacktestingEngine loop (src/src/engine.py).                         *)
(*                                                                         *)
(* Money is counted in whole units, so Python's float arithmetic on cash   *)
(* and prices becomes exact integer arithmetic; a not-a-number price is    *)
(* the value NaN, which every arithmetic helper propagates the way IEEE    *)
(* floats do.  A momentum score is kept as the fraction <<num, den>>.      *)
(***************************************************************************)
EXTENDS Integers, Sequences, FiniteSets

(***************************************************************************)
(* Bounds of the model.                                                    *)
(***************************************************************************)
\* longest price history (number of trading days)
MaxDays == 4
\* most direct calls of Portfolio.execute_transaction by a client
MaxCalls == 3
\* largest |quantity| a client passes to execute_transaction
MaxQty == 2
\* the starting cash of a run; a client starts with any cash up to it
MaxCash == 3

\* the tickers of the market data
Tickers == {"A", "B"}
\* the sets of Close_<ticker> columns a history may have
ColumnSets == {{"A", "B"}, {"A"}}
\* the valid close prices
ValidPrices == {1, 2}
\* initial_investment_per_ticker / monthly_investment
Amounts == {1, 2}
\* lookback_months of a MomentumStrategy
Lookbacks == {1, 12}
\* the ticker lists a strategy is configured with
TickerLists == {<<"A", "B">>, <<"B", "A">>}

\* The trading dates histories are cut from, with the ISO week of each
\* (2020-01-30 Thu, 2020-01-31 Fri, 2020-02-03 Mon, 2021-01-04 Mon,
\* 2021-02-01 Mon).
Calendar ==
  << [year |-> 2020, month |-> 1, day |-> 30, week |-> 5],
     [year |-> 2020, month |-> 1, day |-> 31, week |-> 5],
     [year |-> 2020, month |-> 2, day |-> 3,  week |-> 6],
     [year |-> 2021, month |-> 1, day |-> 4,  week |-> 1],
     [year |-> 2021, month |-> 2, day |-> 1,  week |-> 5] >>

(***************************************************************************)
(* Floats: not-a-number and the arithmetic that propagates it.             *)
(***************************************************************************)
NaN == 0 - 1

notna(x) == x # NaN

FMul(q, p) == IF p = NaN THEN NaN ELSE q * p

FAdd(a, b) == IF a = NaN \/ b = NaN THEN NaN ELSE a + b

abs(x) == IF x < 0 THEN 0 - x ELSE x

PriceValues == ValidPrices \cup {NaN}

(***************************************************************************)
(* Dates (pd.Timestamp at midnight) and pd.DateOffset(months = k).         *)
(***************************************************************************)
DateLT(a, b) ==
  \/ a.year < b.year
  \/ a.year = b.year /\ a.month < b.month
  \/ a.year = b.year /\ a.month = b.month /\ a.day < b.day

DateGE(a, b) == ~DateLT(a, b)

IsLeap(y) == (y % 4 = 0 /\ y % 100 # 0) \/ y % 400 = 0

DaysInMonth(y, m) ==
  IF m = 2 THEN (IF IsLeap(y) THEN 29 ELSE 28)
  ELSE IF m \in {4, 6, 9, 11} THEN 30 ELSE 31

\* date - pd.DateOffset(months = k): k calendar months back, the day clamped
\* to the length of the month reached
MinusMonths(d, k) ==
  LET m0 == d.year * 12 + (d.month - 1) - k
      y  == m0 \div 12
      m  == (m0 % 12) + 1
      dm == DaysInMonth(y, m)
  IN [year |-> y, month |-> m, day |-> IF d.day < dm THEN d.day ELSE dm]

(***************************************************************************)
(* Python dicts keep insertion order: a dict is the sequence of its        *)
(* entries [ticker, quantity] in the order the keys were first inserted.   *)
(***************************************************************************)
DictKeys(d) == {d[i].ticker : i \in 1..Len(d)}

\* d.get(t, 0)
DictGet(d, t) ==
  IF t \in DictKeys(d)
    THEN d[CHOOSE i \in 1..Len(d) : d[i].ticker = t].quantity
    ELSE 0

\* d[t] = q
DictSet(d, t, q) ==
  IF t \in DictKeys(d)
    THEN [i \in 1..Len(d) |->
            IF d[i].ticker = t THEN [ticker |-> t, quantity |-> q] ELSE d[i]]
    ELSE Append(d, [ticker |-> t, quantity |-> q])

\* del d[t]
DictDel(d, t) ==
  LET keep(e) == e.ticker # t IN SelectSeq(d, keep)

(***************************************************************************)
(* Portfolio (src/src/portfolio.py).  A portfolio value is the record      *)
(* [cash, holdings, transactions].                                         *)
(***************************************************************************)
\* mutants of _record_transaction: the notional, or the quantity, keeps the
\* sign of the signed quantity
record_transaction_SignedCost(transactions, date, ticker, quantity, price, action) ==
  Append(transactions,
         [date |-> date, ticker |-> ticker, action |-> action,
          quantity |-> abs(quantity), price |-> price,
          cost |-> quantity * price])

record_transaction_SignedQuantity(transactions, date, ticker, quantity, price, action) ==
  Append(transactions,
         [date |-> date, ticker |-> ticker, action |-> action,
          quantity |-> quantity, price |-> price,
          cost |-> abs(quantity) * price])

\* Portfolio._record_transaction
record_transaction(transactions, date, ticker, quantity, price, action) ==
  Append(transactions,
         [date |-> date, ticker |-> ticker, action |-> action,
          quantity |-> abs(quantity), price |-> price,
          cost |-> abs(quantity) * price])

\* mutants of the buy guard: no check at all; the cash compared with the
\* price of one share
InsufficientCash_Unchecked(c, quantity, price) == FALSE

InsufficientCash_OneShare(c, quantity, price) == c < price

\* the buy guard of execute_transaction
InsufficientCash(c, quantity, price) == c < quantity * price

\* mutant of the sell guard: only a ticker that is not held is refused
InsufficientShares_NotHeld(h, ticker, quantity) == DictGet(h, ticker) = 0

\* the sell guard of execute_transaction
InsufficientShares(h, ticker, quantity) == DictGet(h, ticker) < abs(quantity)

\* mutant: an entry sold down to zero is kept
SellHoldings_KeepZero(h, ticker, quantity) ==
  DictSet(h, ticker, DictGet(h, ticker) + quantity)

\* the holdings after an accepted sell
SellHoldings(h, ticker, quantity) ==
  LET h1 == DictSet(h, ticker, DictGet(h, ticker) + quantity)
  IN IF DictGet(h1, ticker) = 0 THEN DictDel(h1, ticker) ELSE h1

\* mutant: a buy replaces the quantity held
BuyHoldings_Replace(h, ticker, quantity) == DictSet(h, ticker, quantity)

\* the holdings after an accepted buy
BuyHoldings(h, ticker, quantity) ==
  DictSet(h, ticker, DictGet(h, ticker) + quantity)

\* Portfolio.execute_transaction: the portfolio after the call
execute_transaction(p, ticker, quantity, price, date) ==
  LET transaction_cost == quantity * price
  IN IF quantity > 0
       THEN IF InsufficientCash(p.cash, quantity, price)
              THEN p
              ELSE [cash |-> p.cash - transaction_cost,
                    holdings |-> BuyHoldings(p.holdings, ticker, quantity),
                    transactions |-> record_transaction(p.transactions, date,
                                         ticker, quantity, price, "BUY")]
     ELSE IF quantity < 0
       THEN IF InsufficientShares(p.holdings, ticker, quantity)
              THEN p
              ELSE [cash |-> p.cash - transaction_cost,
                    holdings |-> SellHoldings(p.holdings, ticker, quantity),
                    transactions |-> record_transaction(p.transactions, date,
                                         ticker, quantity, price, "SELL")]
     ELSE p

\* Portfolio.get_holdings_value: a held ticker whose column is absent is
\* skipped; a not-a-number price of a present column is added as it is
RECURSIVE get_holdings_value(_, _)
get_holdings_value(h, current_prices) ==
  IF h = <<>> THEN 0
  ELSE LET e    == h[Len(h)]
           rest == get_holdings_value(SubSeq(h, 1, Len(h) - 1), current_prices)
       IN IF e.ticker \in DOMAIN current_prices
            THEN FAdd(rest, FMul(e.quantity, current_prices[e.ticker]))
            ELSE rest

\* Portfolio.get_total_value
get_total_value(c, h, current_prices) ==
  FAdd(get_holdings_value(h, current_prices), c)

(***************************************************************************)
(* The price history: a pd.DataFrame indexed by strictly increasing dates, *)
(* one row [date, close] per trading day, close[t] the entry of column     *)
(* Close_t.  A column that is absent is absent from every row.             *)
(***************************************************************************)
Indices(data) == [i \in 1..Len(data) |-> i]

\* mutant: the last row of the month, which is known only from later rows
FirstDayOfMonth_Last(data, i) ==
  \A j \in 1..Len(data) :
     data[j].date.month = data[i].date.month => j <= i

\* data[data.index.month == date.month].index[0] == date
FirstDayOfMonth(data, i) ==
  \A j \in 1..Len(data) :
     data[j].date.month = data[i].date.month => j >= i

\* mutant: the week is identified by its year and its number
FirstDayOfWeek_SameYear(data, i) ==
  \A j \in 1..Len(data) :
     (/\ data[j].date.week = data[i].date.week
      /\ data[j].date.year = data[i].date.year) => j >= i

\* data[data.index.isocalendar().week == date.isocalendar().week].index[0] == date
FirstDayOfWeek(data, i) ==
  \A j \in 1..Len(data) :
     data[j].date.week = data[i].date.week => j >= i

(***************************************************************************)
(* BuyAndHoldStrategy.generate_signals, the body of `if not self.invested` *)
(***************************************************************************)
RECURSIVE BuyAndHoldSignals(_, _, _)
BuyAndHoldSignals(tickers, initial_investment, row) ==
  IF tickers = <<>> THEN <<>>
  ELSE LET ticker == tickers[Len(tickers)]
           rest   == BuyAndHoldSignals(SubSeq(tickers, 1, Len(tickers) - 1),
                                       initial_investment, row)
       IN IF /\ ticker \in DOMAIN row.close
             /\ notna(row.close[ticker])
             /\ row.close[ticker] > 0
             /\ initial_investment \div row.close[ticker] > 0
            THEN DictSet(rest, ticker, initial_investment \div row.close[ticker])
            ELSE rest

(***************************************************************************)
(* MonthlyInvestmentStrategy.generate_signals: the month compared is       *)
(* date.month, the month number 1..12.                                     *)
(***************************************************************************)
MonthlyBuys(data, i, ticker, monthly_investment, last_investment_month) ==
  /\ data[i].date.month # last_investment_month
  /\ FirstDayOfMonth(data, i)
  /\ ticker \in DOMAIN data[i].close
  /\ notna(data[i].close[ticker])
  /\ data[i].close[ticker] > 0
  /\ monthly_investment \div data[i].close[ticker] > 0

(***************************************************************************)
(* MomentumStrategy.generate_signals                                       *)
(***************************************************************************)
IsRebalanceDay(data, i, rebalance_frequency) ==
  CASE rebalance_frequency = "daily"   -> TRUE
    [] rebalance_frequency = "weekly"  -> FirstDayOfWeek(data, i)
    [] rebalance_frequency = "monthly" -> FirstDayOfMonth(data, i)
    [] OTHER -> FALSE

\* lookback_data: the rows dated in [date - lookback_months, date)
LookbackRows(data, i, lookback_months) ==
  LET lookback_start_date == MinusMonths(data[i].date, lookback_months)
      inside(j) == /\ DateGE(data[j].date, lookback_start_date)
                   /\ DateLT(data[j].date, data[i].date)
  IN SelectSeq(Indices(data), inside)

\* lookback_data[price_col].dropna()
WindowPrices(data, rows, ticker) ==
  LET col == [k \in 1..Len(rows) |-> data[rows[k]].close[ticker]]
  IN SelectSeq(col, notna)

\* mutant: one valid price is enough for a score
EnoughPrices_One(prices) == Len(prices) > 0

\* len(prices) > 1
EnoughPrices(prices) == Len(prices) > 1

\* the momentum dict, in the order of self.tickers
RECURSIVE MomentumScores(_, _, _)
MomentumScores(data, rows, tickers) ==
  IF tickers = <<>> THEN <<>>
  ELSE LET ticker == tickers[Len(tickers)]
           rest   == MomentumScores(data, rows,
                                    SubSeq(tickers, 1, Len(tickers) - 1))
       IN IF ticker \notin DOMAIN data[1].close THEN rest
          ELSE LET prices == WindowPrices(data, rows, ticker)
               IN IF EnoughPrices(prices)
                    THEN Append(rest, [ticker |-> ticker,
                                       num |-> prices[Len(prices)] - prices[1],
                                       den |-> prices[1]])
                    ELSE rest

\* mutant: a later entry replaces an equal earlier one
ScoreGT_OrEqual(a, b) == a.num * b.den >= b.num * a.den

\* a > b for two scores num/den with den > 0
ScoreGT(a, b) == a.num * b.den > b.num * a.den

\* max(momentum, key = momentum.get): the scan keeps the first of the
\* greatest entries
RECURSIVE MaxScan(_, _, _)
MaxScan(momentum, k, best) ==
  IF k > Len(momentum) THEN best
  ELSE MaxScan(momentum, k + 1,
               IF ScoreGT(momentum[k], momentum[best]) THEN k ELSE best)

WinnerOf(momentum) == momentum[MaxScan(momentum, 2, 1)].ticker

\* mutant: nothing is liquidated
SellSignals_None(h, winner_ticker) == <<>>

\* the sell signals: every holding but the winner, all of it
RECURSIVE SellSignals(_, _)
SellSignals(h, winner_ticker) ==
  IF h = <<>> THEN <<>>
  ELSE LET e    == h[Len(h)]
           rest == SellSignals(SubSeq(h, 1, Len(h) - 1), winner_ticker)
       IN IF e.ticker # winner_ticker
            THEN DictSet(rest, e.ticker, 0 - e.quantity)
            ELSE rest

\* mutant: only the buys are returned
NonZero_BuysOnly(signals) ==
  LET buy(e) == e.quantity > 0 IN SelectSeq(signals, buy)

\* {ticker: qty for ticker, qty in signals.items() if qty != 0}
NonZero(signals) ==
  LET nz(e) == e.quantity # 0 IN SelectSeq(signals, nz)

\* mutant: the winner's entry comes before the sells
WithWinner_First(sells, winner_ticker, quantity) ==
  <<[ticker |-> winner_ticker, quantity |-> quantity]>> \o sells

\* signals[winner_ticker] = quantity, after the sells were entered
WithWinner(sells, winner_ticker, quantity) ==
  DictSet(sells, winner_ticker, quantity)

NoTicker == "-"

\* The outcome of one call: [raised, winner, signals].  int() of a
\* not-a-number total value raises ValueError.
MomentumOutcome(s, data, i, c, h) ==
  LET rows     == LookbackRows(data, i, s.lookback_months)
      momentum == MomentumScores(data, rows, s.tickers)
      empty    == [raised |-> FALSE, winner |-> NoTicker, signals |-> <<>>]
  IN IF ~IsRebalanceDay(data, i, s.rebalance_frequency) THEN empty
     ELSE IF rows = <<>> THEN empty
     ELSE IF momentum = <<>> THEN empty
     ELSE
       LET winner_ticker == WinnerOf(momentum)
           sells == SellSignals(h, winner_ticker)
           total_portfolio_value == get_total_value(c, h, data[i].close)
           winner_price == data[i].close[winner_ticker]
       IN IF notna(winner_price) /\ winner_price > 0
            THEN IF total_portfolio_value = NaN
                   THEN [raised |-> TRUE, winner |-> winner_ticker,
                         signals |-> <<>>]
                   ELSE [raised |-> FALSE, winner |-> winner_ticker,
                         signals |-> NonZero(WithWinner(sells, winner_ticker,
                            (total_portfolio_value \div winner_price)
                              - DictGet(h, winner_ticker)))]
            ELSE [raised |-> FALSE, winner |-> winner_ticker,
                  signals |-> NonZero(sells)]

(***************************************************************************)
(* State.                                                                  *)
(***************************************************************************)
VARIABLES
  strategy,               \* the strategy object's configuration
  data,                   \* the price history handed to the engine
  initial_cash,           \* Portfolio.initial_cash
  cash,                   \* Portfolio.cash
  holdings,               \* Portfolio.holdings
  transactions,           \* Portfolio.transactions
  invested,               \* BuyAndHoldStrategy.invested
  last_investment_month,  \* MonthlyInvestmentStrategy.last_investment_month
  pc,                     \* where run_backtest is
  day,                    \* the row the loop of run_backtest is at
  signals,                \* the signals of the latest generate_signals call
  cursor,                 \* the entry of signals the inner loop is at
  winner,                 \* winner_ticker of the latest momentum call
  equity,                 \* run_backtest's equity
  cash_over_time,         \* run_backtest's cash_over_time
  ncalls,                 \* number of execute_transaction calls so far
  call,                   \* the arguments of the latest of them
  other_run               \* the objects of a second simulation, if any

vars == << strategy, data, initial_cash, cash, holdings, transactions,
           invested, last_investment_month, pc, day, signals, cursor,
           winner, equity, cash_over_time, ncalls, call, other_run >>

portfolio == [cash |-> cash, holdings |-> holdings,
              transactions |-> transactions]

NoCall == [ticker |-> NoTicker, quantity |-> 0, price |-> 0]

\* no second simulation
NoRun == [pc |-> "none"]

NaNCells(px) ==
  {c \in (DOMAIN px) \X Tickers :
     c[2] \in DOMAIN px[c[1]] /\ px[c[1]][c[2]] = NaN}

\* the not-a-number cells of a history all lie in one row (one trading day
\* on which one ticker, or every ticker, has no price)
FewNaN(px) == \A c, d \in NaNCells(px) : c[1] = d[1]

\* the price tables of n rows over the columns cols
PriceTables(n, cols) ==
  {q \in [1..n -> [cols -> PriceValues]] : FewNaN(q)}

\* the histories: at most MaxDays consecutive Calendar dates from first on
HistoriesFrom(first) ==
  UNION { { [i \in 1..n |-> [date  |-> Calendar[first + i - 1],
                             close |-> px[i]]] :
              px \in UNION {PriceTables(n, cols) : cols \in ColumnSets} } :
          n \in {m \in 1..MaxDays : first + m - 1 <= Len(Calendar)} }

\* the histories from every first date (as HistoriesFrom builds them, in one
\* union over the first date, the length and the columns)
Histories ==
  UNION { { [i \in 1..s[2] |-> [date  |-> Calendar[s[1] + i - 1],
                                close |-> px[i]]] :
              px \in PriceTables(s[2], s[3]) } :
          s \in {r \in (1..Len(Calendar)) \X (1..MaxDays) \X ColumnSets :
                   r[1] + r[2] - 1 <= Len(Calendar)} }

Strategies ==
  { [kind |-> "Client", tickers |-> <<>>, amount |-> 0,
     lookback_months |-> 0, rebalance_frequency |-> "-"] }
  \cup
  { [kind |-> "BuyAndHold", tickers |-> tl, amount |-> a,
     lookback_months |-> 0, rebalance_frequency |-> "-"] :
      tl \in TickerLists, a \in Amounts }
  \cup
  { [kind |-> "Monthly", tickers |-> <<t>>, amount |-> a,
     lookback_months |-> 0, rebalance_frequency |-> "-"] :
      t \in Tickers, a \in Amounts }
  \cup
  { [kind |-> "Momentum", tickers |-> tl, amount |-> 0,
     lookback_months |-> lb, rebalance_frequency |-> f] :
      tl \in TickerLists, lb \in Lookbacks,
      f \in {"daily", "weekly", "monthly"} }

Init ==
  /\ strategy \in Strategies
  /\ IF strategy.kind = "Client"
       THEN data = <<>> /\ pc = "client"
       ELSE data \in Histories /\ pc = "signals"
  /\ initial_cash \in (IF strategy.kind = "Client" THEN 0..MaxCash
                                                     ELSE {MaxCash})
  /\ cash = initial_cash
  /\ holdings = <<>>
  /\ transactions = <<>>
  /\ invested = FALSE
  /\ last_investment_month = 0 - 1
  /\ day = 1
  /\ signals = <<>>
  /\ cursor = 1
  /\ winner = NoTicker
  /\ equity = <<>>
  /\ cash_over_time = <<>>
  /\ ncalls = 0
  /\ call = NoCall
  /\ other_run = NoRun

(***************************************************************************)
(* Operations.                                                             *)
(***************************************************************************)
\* the portfolio variables after execute_transaction(ticker, quantity, price)
Transact(ticker, quantity, price, date) ==
  LET p == execute_transaction(portfolio, ticker, quantity, price, date)
  IN /\ cash' = p.cash
     /\ holdings' = p.holdings
     /\ transactions' = p.transactions
     /\ ncalls' = ncalls + 1
     /\ call' = [ticker |-> ticker, quantity |-> quantity, price |-> price]

\* a client of Portfolio calls execute_transaction directly
ClientCall ==
  /\ pc = "client"
  /\ ncalls < MaxCalls
  /\ \E ticker \in Tickers, quantity \in (0 - MaxQty)..MaxQty,
        price \in ValidPrices :
       Transact(ticker, quantity, price, Calendar[1])
  /\ UNCHANGED << other_run, strategy, data, initial_cash, invested,
                  last_investment_month, pc, day, signals, cursor, winner,
                  equity, cash_over_time >>

\* mutant: the strategy counts as invested only once it has signalled a buy
InvestedAfterCall_WhenBought(sig) == sig # <<>>

\* self.invested = True, whatever the call signalled
InvestedAfterCall(sig) == TRUE

\* run_backtest, step 1 with a BuyAndHoldStrategy
BuyAndHoldGenerate ==
  /\ pc = "signals"
  /\ strategy.kind = "BuyAndHold"
  /\ signals' = IF ~invested
                  THEN BuyAndHoldSignals(strategy.tickers, strategy.amount,
                                         data[day])
                  ELSE <<>>
  /\ invested' = InvestedAfterCall(signals')
  /\ cursor' = 1
  /\ pc' = IF signals' = <<>> THEN "record" ELSE "orders"
  /\ UNCHANGED << other_run, strategy, data, initial_cash, cash, holdings,
                  transactions,
                  last_investment_month, day, winner, equity, cash_over_time,
                  ncalls, call >>

\* run_backtest, step 1 with a MonthlyInvestmentStrategy
MonthlyGenerate ==
  /\ pc = "signals"
  /\ strategy.kind = "Monthly"
  /\ LET ticker == strategy.tickers[1]
         buys   == MonthlyBuys(data, day, ticker, strategy.amount,
                               last_investment_month)
     IN /\ signals' = IF buys
                        THEN << [ticker |-> ticker,
                                 quantity |-> strategy.amount
                                                \div data[day].close[ticker]] >>
                        ELSE <<>>
        /\ last_investment_month' = IF buys THEN data[day].date.month
                                    ELSE last_investment_month
  /\ cursor' = 1
  /\ pc' = IF signals' = <<>> THEN "record" ELSE "orders"
  /\ UNCHANGED << other_run, strategy, data, initial_cash, cash, holdings,
                  transactions,
                  invested, day, winner, equity, cash_over_time, ncalls,
                  call >>

\* run_backtest, step 1 with a MomentumStrategy; a ValueError raised by the
\* strategy leaves run_backtest, which returns nothing
MomentumGenerate ==
  /\ pc = "signals"
  /\ strategy.kind = "Momentum"
  /\ LET out == MomentumOutcome(strategy, data, day, cash, holdings)
     IN /\ winner' = out.winner
        /\ signals' = IF out.raised THEN signals ELSE out.signals
        /\ pc' = IF out.raised THEN "aborted"
                 ELSE IF out.signals = <<>> THEN "record" ELSE "orders"
  /\ cursor' = 1
  /\ UNCHANGED << other_run, strategy, data, initial_cash, cash, holdings,
                  transactions,
                  invested, last_investment_month, day, equity,
                  cash_over_time, ncalls, call >>

\* mutant: the entry of a present column is not tested
HasPrice_ColumnOnly(row, ticker) == ticker \in DOMAIN row.close

\* the price check of the inner loop of run_backtest
HasPrice(row, ticker) ==
  ticker \in DOMAIN row.close /\ notna(row.close[ticker])

\* run_backtest, step 2: one (ticker, quantity) of signals.items()
ExecuteOrder ==
  /\ pc = "orders"
  /\ LET ticker   == signals[cursor].ticker
         quantity == signals[cursor].quantity
         row      == data[day]
     IN IF HasPrice(row, ticker)
          THEN Transact(ticker, quantity, row.close[ticker], row.date)
          ELSE UNCHANGED << cash, holdings, transactions, ncalls, call >>
  /\ cursor' = cursor + 1
  /\ pc' = IF cursor < Len(signals) THEN "orders" ELSE "record"
  /\ UNCHANGED << other_run, strategy, data, initial_cash, invested,
                  last_investment_month, day, signals, winner, equity,
                  cash_over_time >>

\* run_backtest, step 3, and the move to the next row or the return
RecordDay ==
  /\ pc = "record"
  /\ equity' = Append(equity,
                 [date  |-> data[day].date,
                  value |-> get_total_value(cash, holdings, data[day].close)])
  /\ cash_over_time' = Append(cash_over_time,
                         [date |-> data[day].date, value |-> cash])
  /\ IF day < Len(data)
       THEN day' = day + 1 /\ pc' = "signals"
       ELSE day' = day /\ pc' = "done"
  /\ UNCHANGED << other_run, strategy, data, initial_cash, cash, holdings,
                  transactions,
                  invested, last_investment_month, signals, cursor, winner,
                  ncalls, call >>

Next ==
  \/ ClientCall
  \/ BuyAndHoldGenerate
  \/ MonthlyGenerate
  \/ MomentumGenerate
  \/ ExecuteOrder
  \/ RecordDay

Spec == Init /\ [][Next]_vars

(***************************************************************************)
(* The engine under any strategy: run_backtest takes a Strategy, whose     *)
(* generate_signals is abstract and returns some dict {ticker: quantity}.  *)
(***************************************************************************)
\* the dicts over the tickers: distinct keys in any order, any quantity
AnySignals ==
  LET Order(t) == [ticker : {t}, quantity : (0 - MaxQty)..MaxQty]
  IN {<<>>}
     \cup UNION {{<<e>> : e \in Order(t)} : t \in Tickers}
     \cup UNION {{<<e, f>> : e \in Order(tu[1]), f \in Order(tu[2])} :
                   tu \in {p \in Tickers \X Tickers : p[1] # p[2]}}

\* the histories over the last two dates of the Calendar
EngineHistories == HistoriesFrom(Len(Calendar) - 1)

InitEngine ==
  /\ strategy = [kind |-> "Any", tickers |-> <<>>, amount |-> 0,
                 lookback_months |-> 0, rebalance_frequency |-> "-"]
  /\ data \in EngineHistories
  /\ pc = "signals"
  /\ initial_cash = MaxCash
  /\ cash = initial_cash
  /\ holdings = <<>>
  /\ transactions = <<>>
  /\ invested = FALSE
  /\ last_investment_month = 0 - 1
  /\ day = 1
  /\ signals = <<>>
  /\ cursor = 1
  /\ winner = NoTicker
  /\ equity = <<>>
  /\ cash_over_time = <<>>
  /\ ncalls = 0
  /\ call = NoCall
  /\ other_run = NoRun

\* run_backtest, step 1 with some implementation of Strategy
AnyGenerate ==
  /\ pc = "signals"
  /\ strategy.kind = "Any"
  /\ signals' \in AnySignals
  /\ cursor' = 1
  /\ pc' = IF signals' = <<>> THEN "record" ELSE "orders"
  /\ UNCHANGED << other_run, strategy, data, initial_cash, cash, holdings,
                  transactions,
                  invested, last_investment_month, day, winner, equity,
                  cash_over_time, ncalls, call >>

NextEngine ==
  \/ AnyGenerate
  \/ ExecuteOrder
  \/ RecordDay

SpecEngine == InitEngine /\ [][NextEngine]_vars

(***************************************************************************)
(* A simulation from the construction of its MomentumStrategy on: the      *)
(* arguments of the constructor are any configuration, valid or not.       *)
(***************************************************************************)
ConfigTickerLists == TickerLists \cup {<<>>}

ConfigLookbacks == Lookbacks \cup {0, 0 - 1}

ConfigFrequencies == {"daily", "weekly", "monthly", "yearly"}

\* the histories from the third date of the Calendar on
ConfigHistories == HistoriesFrom(Len(Calendar) - 2)

\* MomentumStrategy.__init__ raises ValueError
MomentumInitRaises(tickers, lookback_months, rebalance_frequency) ==
  \/ lookback_months <= 0
  \/ rebalance_frequency \notin {"daily", "weekly", "monthly"}

\* no strategy object yet
Unconstructed == [kind |-> "None", tickers |-> <<>>, amount |-> 0,
                  lookback_months |-> 0, rebalance_frequency |-> "-"]

InitConfig ==
  /\ strategy = Unconstructed
  /\ data \in ConfigHistories
  /\ pc = "new"
  /\ initial_cash = MaxCash
  /\ cash = initial_cash
  /\ holdings = <<>>
  /\ transactions = <<>>
  /\ invested = FALSE
  /\ last_investment_month = 0 - 1
  /\ day = 1
  /\ signals = <<>>
  /\ cursor = 1
  /\ winner = NoTicker
  /\ equity = <<>>
  /\ cash_over_time = <<>>
  /\ ncalls = 0
  /\ call = NoCall
  /\ other_run = NoRun

\* MomentumStrategy(tickers, lookback_months, rebalance_frequency): the
\* ValueError ends the program, otherwise the engine is built and run
MomentumInit ==
  /\ pc = "new"
  /\ \E tickers \in ConfigTickerLists, lookback_months \in ConfigLookbacks,
        rebalance_frequency \in ConfigFrequencies :
       IF MomentumInitRaises(tickers, lookback_months, rebalance_frequency)
         THEN /\ pc' = "config_error"
              /\ strategy' = strategy
         ELSE /\ pc' = "signals"
              /\ strategy' = [kind |-> "Momentum", tickers |-> tickers,
                              amount |-> 0,
                              lookback_months |-> lookback_months,
                              rebalance_frequency |-> rebalance_frequency]
  /\ UNCHANGED << other_run, data, initial_cash, cash, holdings, transactions,
                  invested,
                  last_investment_month, day, signals, cursor, winner,
                  equity, cash_over_time, ncalls, call >>

NextConfig ==
  \/ MomentumInit
  \/ MomentumGenerate
  \/ ExecuteOrder
  \/ RecordDay

SpecConfig == InitConfig /\ [][NextConfig]_vars

(***************************************************************************)
(* Two simulations over one price history, as run_simulation sets them up: *)
(* a Portfolio, a MomentumStrategy and a BacktestingEngine of its own for  *)
(* each, the ticker list and market_data being the same objects for both.  *)
(* The variables hold the objects of the simulation that is running and    *)
(* other_run those of the one that is waiting; Switch lets the other one   *)
(* run, at any point of either.                                            *)
(***************************************************************************)
\* the objects of the simulation that is running
RunState ==
  [strategy |-> strategy, initial_cash |-> initial_cash, cash |-> cash,
   holdings |-> holdings, transactions |-> transactions,
   invested |-> invested, last_investment_month |-> last_investment_month,
   pc |-> pc, day |-> day, signals |-> signals, cursor |-> cursor,
   winner |-> winner, equity |-> equity, cash_over_time |-> cash_over_time,
   ncalls |-> ncalls, call |-> call]

\* mutant: the two simulations are given one Portfolio object
OwnLedger_Shared(r) == portfolio

\* the Portfolio of a simulation r: its own
OwnLedger(r) == [cash |-> r.cash, holdings |-> r.holdings,
                 transactions |-> r.transactions]

\* the configurations: one ticker list, a lookback of twelve months, any
\* rebalance frequency
TwoRunConfigs ==
  {s \in Strategies : /\ s.kind = "Momentum"
                      /\ s.tickers = <<"A", "B">>
                      /\ s.lookback_months = 12}

\* the histories of both tickers from the second date of the Calendar on
\* that reach its last date
TwoRunHistories ==
  {h \in HistoriesFrom(2) : /\ h[Len(h)].date = Calendar[Len(Calendar)]
                            /\ DOMAIN h[1].close = Tickers}

InitTwoRuns ==
  /\ strategy \in TwoRunConfigs
  /\ data \in TwoRunHistories
  /\ pc = "signals"
  /\ initial_cash = MaxCash
  /\ cash = initial_cash
  /\ holdings = <<>>
  /\ transactions = <<>>
  /\ invested = FALSE
  /\ last_investment_month = 0 - 1
  /\ day = 1
  /\ signals = <<>>
  /\ cursor = 1
  /\ winner = NoTicker
  /\ equity = <<>>
  /\ cash_over_time = <<>>
  /\ ncalls = 0
  /\ call = NoCall
  /\ \E s \in TwoRunConfigs \ {strategy} :
       other_run = [RunState EXCEPT !.strategy = s]

\* the simulation that was waiting goes on and the running one waits
Switch ==
  /\ other_run.pc \in {"signals", "orders", "record"}
  /\ other_run' = RunState
  /\ strategy' = other_run.strategy
  /\ initial_cash' = other_run.initial_cash
  /\ cash' = OwnLedger(other_run).cash
  /\ holdings' = OwnLedger(other_run).holdings
  /\ transactions' = OwnLedger(other_run).transactions
  /\ invested' = other_run.invested
  /\ last_investment_month' = other_run.last_investment_month
  /\ pc' = other_run.pc
  /\ day' = other_run.day
  /\ signals' = other_run.signals
  /\ cursor' = other_run.cursor
  /\ winner' = other_run.winner
  /\ equity' = other_run.equity
  /\ cash_over_time' = other_run.cash_over_time
  /\ ncalls' = other_run.ncalls
  /\ call' = other_run.call
  /\ UNCHANGED data

NextTwoRuns ==
  \/ MomentumGenerate
  \/ ExecuteOrder
  \/ RecordDay
  \/ Switch

SpecTwoRuns == InitTwoRuns /\ [][NextTwoRuns]_vars

(***************************************************************************)
(* run_backtest as a function: what a simulation with a MomentumStrategy   *)
(* returns when it runs alone.                                             *)
(***************************************************************************)
\* the inner loop over signals.items(), from entry k on
RECURSIVE SoloOrders(_, _, _, _)
SoloOrders(p, sig, k, row) ==
  IF k > Len(sig) THEN p
  ELSE SoloOrders(IF HasPrice(row, sig[k].ticker)
                    THEN execute_transaction(p, sig[k].ticker, sig[k].quantity,
                                             row.close[sig[k].ticker], row.date)
                    ELSE p,
                  sig, k + 1, row)

\* the loop over the rows, from row i on; r = [pc, p, equity, cash_over_time]
RECURSIVE SoloDays(_, _, _, _)
SoloDays(s, d, i, r) ==
  IF i > Len(d) THEN [r EXCEPT !.pc = "done"]
  ELSE LET out == MomentumOutcome(s, d, i, r.p.cash, r.p.holdings)
       IN IF out.raised THEN [r EXCEPT !.pc = "aborted"]
          ELSE LET p2 == SoloOrders(r.p, out.signals, 1, d[i])
               IN SoloDays(s, d, i + 1,
                    [pc |-> r.pc,
                     p  |-> p2,
                     equity |-> Append(r.equity,
                        [date  |-> d[i].date,
                         value |-> get_total_value(p2.cash, p2.holdings,
                                                   d[i].close)]),
                     cash_over_time |-> Append(r.cash_over_time,
                        [date |-> d[i].date, value |-> p2.cash])])

SoloRun(s, d, c) ==
  LET r == SoloDays(s, d, 1,
             [pc |-> "signals",
              p  |-> [cash |-> c, holdings |-> <<>>, transactions |-> <<>>],
              equity |-> <<>>, cash_over_time |-> <<>>])
  IN [pc |-> r.pc, equity |-> r.equity, cash_over_time |-> r.cash_over_time,
      transactions |-> r.p.transactions]

(***************************************************************************)
(* Vocabulary of the properties.                                           *)
(***************************************************************************)
\* the sum of the recorded notionals (cost) of the transactions tagged action
RECURSIVE Notional(_, _)
Notional(tx, action) ==
  IF tx = <<>> THEN 0
  ELSE Notional(SubSeq(tx, 1, Len(tx) - 1), action)
       + (IF tx[Len(tx)].action = action THEN tx[Len(tx)].cost ELSE 0)

InRun == strategy.kind # "Client"

\* an execute_transaction call is made in this step
Called == ncalls' = ncalls + 1

LedgerUnchanged == UNCHANGED << cash, holdings, transactions >>

LastTransaction == transactions[Len(transactions)]

(***************************************************************************)
(* C1: at every point of a run, and after any sequence of                  *)
(* execute_transaction calls, the ledger's cash is >= 0.                   *)
(***************************************************************************)
C1_CashNonNegative == cash >= 0

\* a buy has spent the cash down to exactly zero
C1_Witness ==
  /\ cash = 0
  /\ transactions # <<>>
  /\ LastTransaction.action = "BUY"

(***************************************************************************)
(* C2 as stated: at every date of a run, cash plus the holdings value at   *)
(* that date's prices equals initial_cash + sum of SELL notionals - sum of *)
(* BUY notionals so far.                                                   *)
(***************************************************************************)
C2_Original ==
  (InRun /\ pc = "record") =>
     get_total_value(cash, holdings, data[day].close)
       = initial_cash + Notional(transactions, "SELL")
                      - Notional(transactions, "BUY")

(***************************************************************************)
(* C2 amended: at every point of a run it is the cash alone that equals    *)
(* initial_cash + sum of SELL notionals - sum of BUY notionals so far.     *)
(***************************************************************************)
C2_CashConservation ==
  InRun =>
     cash = initial_cash + Notional(transactions, "SELL")
                         - Notional(transactions, "BUY")

\* a run in which shares were bought and later sold
C2_Witness ==
  /\ InRun
  /\ pc = "record"
  /\ Notional(transactions, "BUY") > 0
  /\ Notional(transactions, "SELL") > 0

(***************************************************************************)
(* C3: a buy with cash < quantity * price is rejected: cash, holdings and  *)
(* the transaction log are as before the call, nothing is recorded.        *)
(***************************************************************************)
C3_BuyRejected ==
  [][ (Called /\ call'.quantity > 0 /\ cash < call'.quantity * call'.price)
        => LedgerUnchanged ]_vars

\* the latest call of a run was a buy the cash did not cover, made after an
\* accepted buy of another ticker
C3_Witness ==
  /\ InRun
  /\ ncalls = Len(transactions) + 1
  /\ transactions # <<>>
  /\ LastTransaction.ticker # call.ticker
  /\ call.quantity > 0
  /\ cash < call.quantity * call.price

(***************************************************************************)
(* C4: a sell of more shares of a ticker than are held (a ticker not held  *)
(* included) is rejected: cash, holdings and the transaction log are       *)
(* unchanged, nothing is recorded.                                         *)
(***************************************************************************)
C4_SellRejected ==
  [][ (Called /\ call'.quantity < 0
         /\ DictGet(holdings, call'.ticker) < 0 - call'.quantity)
        => LedgerUnchanged ]_vars

\* one share was bought, then a sell of two of that ticker was refused
C4_Witness ==
  /\ ncalls = 2
  /\ Len(transactions) = 1
  /\ transactions[1].action = "BUY"
  /\ transactions[1].ticker = call.ticker
  /\ call.quantity < 0
  /\ DictGet(holdings, call.ticker) > 0
  /\ DictGet(holdings, call.ticker) < 0 - call.quantity

(***************************************************************************)
(* C5: every execute_transaction call either changes cash and holdings and *)
(* appends exactly one record (BUY for quantity > 0, SELL for quantity < 0,*)
(* the quantity recorded positive) or changes and appends nothing; a call  *)
(* with quantity = 0 is of the second kind.                                *)
(***************************************************************************)
C5_Recorded ==
  /\ call'.quantity # 0
  /\ cash' # cash
  /\ holdings' # holdings
  /\ Len(transactions') = Len(transactions) + 1
  /\ SubSeq(transactions', 1, Len(transactions)) = transactions
  /\ LET rec == transactions'[Len(transactions')]
     IN /\ rec.ticker = call'.ticker
        /\ rec.action = (IF call'.quantity > 0 THEN "BUY" ELSE "SELL")
        /\ rec.quantity > 0
        /\ rec.quantity = abs(call'.quantity)

C5_Atomic == [][ Called => (C5_Recorded \/ LedgerUnchanged) ]_vars

\* calls of both kinds were made, the latest an accepted sell
C5_Witness ==
  /\ ncalls > Len(transactions)
  /\ transactions # <<>>
  /\ LastTransaction.action = "SELL"
  /\ call.quantity < 0
  /\ LastTransaction.quantity = 0 - call.quantity

(***************************************************************************)
(* C6 as stated: run_backtest visits every date of the history once, in    *)
(* date order, with no early exit, and when it is over the equity curve    *)
(* and the cash curve have one entry per trading day.                      *)
(***************************************************************************)
C6_Original ==
  (InRun /\ pc \in {"done", "aborted"}) =>
     /\ Len(equity) = Len(data)
     /\ Len(cash_over_time) = Len(data)
     /\ \A i \in 1..Len(data) :
          equity[i].date = data[i].date /\ cash_over_time[i].date = data[i].date

(***************************************************************************)
(* C7 as stated: no per-day, per-order failure (a missing or not-a-number  *)
(* price of an ordered or held ticker, insufficient cash or shares, no     *)
(* momentum data) aborts a run.                                            *)
(***************************************************************************)
C7_Original == pc # "aborted"

(***************************************************************************)
(* C8 as stated: BuyAndHold.generate_signals returns a non-empty signal on *)
(* the first call of a run and the empty signal on every later call.       *)
(***************************************************************************)
C8_AfterCall == strategy.kind = "BuyAndHold" /\ pc \in {"orders", "record"}

C8_Original ==
  C8_AfterCall => IF day = 1 THEN signals # <<>> ELSE signals = <<>>

\* the configured tickers a BuyAndHold strategy can buy on row i
C8_Buyable(i) ==
  {t \in {strategy.tickers[k] : k \in 1..Len(strategy.tickers)} :
     /\ t \in DOMAIN data[i].close
     /\ data[i].close[t] \in ValidPrices
     /\ data[i].close[t] <= strategy.amount}

(***************************************************************************)
(* C8 amended: the first call of a run returns exactly a buy of            *)
(* floor(investment / price) shares for each configured ticker whose price *)
(* that day is valid, positive and not above the investment, which is the  *)
(* empty signal when there is no such ticker; every later call returns the *)
(* empty signal.                                                           *)
(***************************************************************************)
C8_FiresOnce ==
  C8_AfterCall =>
    IF day = 1
      THEN /\ DictKeys(signals) = C8_Buyable(1)
           /\ Len(signals) = Cardinality(C8_Buyable(1))
           /\ \A t \in C8_Buyable(1) :
                /\ DictGet(signals, t) * data[1].close[t] <= strategy.amount
                /\ (DictGet(signals, t) + 1) * data[1].close[t] > strategy.amount
      ELSE signals = <<>>

\* a later call has returned the empty signal after the first one bought
C8_Witness ==
  /\ C8_AfterCall
  /\ day > 1
  /\ signals = <<>>
  /\ transactions # <<>>

(***************************************************************************)
(* C9 as stated: MonthlyDollarCostAverage buys floor(amount / price) on    *)
(* the first trading day of every calendar month of the history, so a      *)
(* history of N calendar months at a constant affordable price yields      *)
(* exactly N BUY transactions, one per month.                              *)
(***************************************************************************)
C9_Months(rows) == {<<rows[i].date.year, rows[i].date.month>> : i \in 1..Len(rows)}

\* the ticker has one constant valid price p, amount buys at least one share
\* and the cash covers a purchase in every calendar month of the history
C9_ConstantAffordable ==
  /\ strategy.kind = "Monthly"
  /\ strategy.tickers[1] \in DOMAIN data[1].close
  /\ \E p \in ValidPrices :
       /\ \A i \in 1..Len(data) : data[i].close[strategy.tickers[1]] = p
       /\ strategy.amount \div p > 0
       /\ Cardinality(C9_Months(data)) * (strategy.amount \div p) * p
            <= initial_cash

C9_Original ==
  (pc = "done" /\ C9_ConstantAffordable) =>
     /\ Len(transactions) = Cardinality(C9_Months(data))
     /\ Cardinality(C9_Months(transactions)) = Cardinality(C9_Months(data))
     /\ \A k \in 1..Len(transactions) :
          /\ transactions[k].action = "BUY"
          /\ transactions[k].quantity
               = strategy.amount \div transactions[k].price

(***************************************************************************)
(* C10: when several tickers share the greatest momentum score, the winner *)
(* is the one that comes first in the strategy's configured ticker list.   *)
(***************************************************************************)
C10_Position(t) == CHOOSE k \in 1..Len(strategy.tickers) : strategy.tickers[k] = t

\* the scores of the latest momentum call
C10_Scores ==
  MomentumScores(data, LookbackRows(data, day, strategy.lookback_months),
                 strategy.tickers)

C10_Selected == strategy.kind = "Momentum" /\ pc # "signals" /\ winner # NoTicker

C10_FirstListedWins ==
  C10_Selected =>
    \E w \in 1..Len(C10_Scores) :
      /\ C10_Scores[w].ticker = winner
      /\ \A k \in 1..Len(C10_Scores) :
           LET a == C10_Scores[k]
               b == C10_Scores[w]
           IN /\ a.num * b.den <= b.num * a.den
              /\ a.num * b.den = b.num * a.den
                   => C10_Position(winner) <= C10_Position(a.ticker)

\* two tickers tie for the greatest score and the winner, listed first, is
\* not the first in alphabetical order
C10_Witness ==
  /\ C10_Selected
  /\ winner = "B"
  /\ strategy.tickers = <<"B", "A">>
  /\ Len(C10_Scores) = 2
  /\ C10_Scores[1].num * C10_Scores[2].den = C10_Scores[2].num * C10_Scores[1].den

(***************************************************************************)
(* C15: in every reachable ledger state every holdings entry maps its      *)
(* ticker to a strictly positive whole number of shares: an entry a sell   *)
(* takes to zero is removed, and no entry is ever negative.                *)
(***************************************************************************)
C15_PositiveHoldings ==
  /\ \A k \in 1..Len(holdings) :
       holdings[k].quantity \in Nat /\ holdings[k].quantity > 0
  /\ Cardinality(DictKeys(holdings)) = Len(holdings)

\* a sell has taken one entry to zero, which is gone, while another ticker
\* is still held
C15_Witness ==
  /\ transactions # <<>>
  /\ LastTransaction.action = "SELL"
  /\ LastTransaction.ticker \notin DictKeys(holdings)
  /\ holdings # <<>>

(***************************************************************************)
(* C13 as stated: the holdings value is the sum of quantity * price over   *)
(* exactly the held tickers that have a valid price in the snapshot, a     *)
(* held ticker whose column is missing or whose entry is not a number      *)
(* being left out, and the total value is cash plus that sum.  Stated of   *)
(* the value run_backtest has recorded for the latest completed day.       *)
(***************************************************************************)
\* the sum over the held tickers that have a valid price in current_prices
RECURSIVE C13_ValidValue(_, _)
C13_ValidValue(h, current_prices) ==
  IF h = <<>> THEN 0
  ELSE C13_ValidValue(SubSeq(h, 1, Len(h) - 1), current_prices)
       + (IF /\ h[Len(h)].ticker \in DOMAIN current_prices
             /\ current_prices[h[Len(h)].ticker] \in ValidPrices
            THEN h[Len(h)].quantity * current_prices[h[Len(h)].ticker]
            ELSE 0)

C13_Original ==
  (InRun /\ pc \in {"signals", "done", "aborted"} /\ equity # <<>>) =>
     equity[Len(equity)].value
       = cash + C13_ValidValue(holdings, data[Len(equity)].close)

(***************************************************************************)
(* C16 as stated: with monthly rebalancing, the strategy treats a date as  *)
(* a rebalance day if and only if it is the earliest date of the whole     *)
(* history in its calendar month (a month of a year); on every other day   *)
(* it returns the empty signal.                                            *)
(***************************************************************************)
C16_Monthly ==
  /\ strategy.kind = "Momentum"
  /\ strategy.rebalance_frequency = "monthly"
  /\ pc # "signals"

C16_EarliestInCalendarMonth(i) ==
  \A j \in 1..Len(data) :
     (/\ data[j].date.year = data[i].date.year
      /\ data[j].date.month = data[i].date.month)
       => ~DateLT(data[j].date, data[i].date)

C16_Original ==
  C16_Monthly =>
    /\ IsRebalanceDay(data, day, "monthly") <=> C16_EarliestInCalendarMonth(day)
    /\ ~C16_EarliestInCalendarMonth(day) => signals = <<>> /\ winner = NoTicker
    /\ (C16_EarliestInCalendarMonth(day) /\ C10_Scores # <<>>)
         => winner # NoTicker

(***************************************************************************)
(* C17: with weekly rebalancing, the strategy treats a date as a rebalance *)
(* day if and only if it is the earliest date of the whole history that    *)
(* has its ISO week number; on every other day it returns the empty        *)
(* signal.                                                                 *)
(***************************************************************************)
C17_Weekly ==
  /\ strategy.kind = "Momentum"
  /\ strategy.rebalance_frequency = "weekly"
  /\ pc # "signals"

C17_EarliestWithWeekNumber(i) ==
  \A j \in 1..Len(data) :
     data[j].date.week = data[i].date.week
       => ~DateLT(data[j].date, data[i].date)

AfterRebalanceCall ==
  /\ strategy.kind = "Momentum"
  /\ winner # NoTicker
  /\ \/ pc = "orders" /\ cursor = 1
     \/ pc = "record" /\ signals = <<>>
     \/ pc = "aborted"

\* ticker has a valid close price on the current day
ValidPriceToday(ticker) ==
  /\ ticker \in DOMAIN data[day].close
  /\ data[day].close[ticker] \in ValidPrices

\* a SELL of quantity shares of ticker is recorded for the current day
SoldToday(ticker, quantity) ==
  \E k \in 1..Len(transactions) :
     /\ transactions[k].date = data[day].date
     /\ transactions[k].ticker = ticker
     /\ transactions[k].action = "SELL"
     /\ transactions[k].quantity = quantity

(***************************************************************************)
(* C12 as stated: on a rebalance day on which the winner has no valid      *)
(* positive price, no order for the winner is produced, every other held   *)
(* ticker gets its full-sell order, and that sell is executed against the  *)
(* ledger.                                                                 *)
(***************************************************************************)
C12_WinnerUnpriced ==
  /\ strategy.kind = "Momentum"
  /\ winner # NoTicker
  /\ pc \in {"orders", "record"}
  /\ ~ValidPriceToday(winner)

\* the signal: nothing for the winner, a full sell for every other holding
C12_Signal ==
  AfterRebalanceCall =>
    /\ pc # "aborted"
    /\ winner \notin DictKeys(signals)
    /\ \A k \in 1..Len(holdings) :
         holdings[k].ticker # winner
           => DictGet(signals, holdings[k].ticker) = 0 - holdings[k].quantity

C12_Original ==
  C12_WinnerUnpriced =>
    /\ C12_Signal
    /\ pc = "record" =>
         \A k \in 1..Len(signals) :
            /\ signals[k].ticker \notin DictKeys(holdings)
            /\ SoldToday(signals[k].ticker, 0 - signals[k].quantity)

(***************************************************************************)
(* C12 amended: on such a day no order for the winner is produced and      *)
(* every other held ticker gets its full-sell order; the sell is executed  *)
(* against the ledger when the held ticker has a valid close price that    *)
(* day, and is dropped, the ticker staying held, when it has none.         *)
(***************************************************************************)
C12_SkipsBuyOnly ==
  C12_WinnerUnpriced =>
    /\ C12_Signal
    /\ pc = "record" =>
         \A k \in 1..Len(signals) :
            IF ValidPriceToday(signals[k].ticker)
              THEN /\ signals[k].ticker \notin DictKeys(holdings)
                   /\ SoldToday(signals[k].ticker, 0 - signals[k].quantity)
              ELSE /\ DictGet(holdings, signals[k].ticker)
                        = 0 - signals[k].quantity
                   /\ ~SoldToday(signals[k].ticker, 0 - signals[k].quantity)

\* the winner has no price today, and the ticker that was held has been
\* sold in full
C12_Witness ==
  /\ C12_WinnerUnpriced
  /\ pc = "record"
  /\ signals # <<>>
  /\ holdings = <<>>
  /\ LastTransaction.action = "SELL"
  /\ LastTransaction.date = data[day].date
  /\ LastTransaction.ticker # winner

(***************************************************************************)
(* C18 as stated: on a rebalance day with a computable winner the signal   *)
(* holds, for every ticker held other than the winner, a sell of exactly   *)
(* the quantity held, and no sell of a ticker that is not held.            *)
(***************************************************************************)
C18_Original ==
  AfterRebalanceCall =>
    /\ pc # "aborted"
    /\ \A k \in 1..Len(holdings) :
         holdings[k].ticker # winner
           => DictGet(signals, holdings[k].ticker) = 0 - holdings[k].quantity
    /\ \A k \in 1..Len(signals) :
         signals[k].quantity < 0 => signals[k].ticker \in DictKeys(holdings)

(***************************************************************************)
(* C19 as stated: on a rebalance day on which the winner has a valid       *)
(* positive price, the winner's entry of the signal is                     *)
(* floor(T / winner_price) - held(winner), T being the cash plus the       *)
(* holdings value at the day's prices of the ledger before the day's       *)
(* trades, and is left out when that difference is zero.                   *)
(***************************************************************************)
C19_Original ==
  (AfterRebalanceCall /\ ValidPriceToday(winner)) =>
    /\ pc # "aborted"
    /\ DictGet(signals, winner)
         = ((cash + C13_ValidValue(holdings, data[day].close))
               \div data[day].close[winner])
           - DictGet(holdings, winner)
    /\ \A k \in 1..Len(signals) : signals[k].quantity # 0

(***************************************************************************)
(* C20: while a day's signal is executed, an order whose ticker has no     *)
(* valid close price that date (column absent or entry not a number) is    *)
(* dropped, the ledger untouched and execute_transaction not called, and   *)
(* the loop goes on: every remaining order of the signal with a valid      *)
(* price is submitted to execute_transaction with that price.              *)
(***************************************************************************)
C20_Order == signals[cursor]

C20_DropsUnpriced ==
  [][ pc = "orders" =>
        /\ IF ValidPriceToday(C20_Order.ticker)
             THEN /\ Called
                  /\ call' = [ticker   |-> C20_Order.ticker,
                              quantity |-> C20_Order.quantity,
                              price    |-> data[day].close[C20_Order.ticker]]
             ELSE /\ LedgerUnchanged
                  /\ UNCHANGED << ncalls, call >>
        /\ UNCHANGED << signals, day >>
        /\ cursor' = cursor + 1
        /\ pc' = IF cursor < Len(signals) THEN "orders" ELSE "record" ]_vars

\* the first order of a signal had no valid price and left no trace in the
\* ledger; the second one was submitted and executed
C20_Witness ==
  /\ pc = "record"
  /\ Len(signals) = 2
  /\ ~ValidPriceToday(signals[1].ticker)
  /\ ValidPriceToday(signals[2].ticker)
  /\ ncalls = 1
  /\ call.ticker = signals[2].ticker
  /\ Len(transactions) = 1
  /\ transactions[1].ticker = signals[2].ticker
  /\ DictKeys(holdings) = {signals[2].ticker}

(***************************************************************************)
(* C11 as stated: constructing a MomentumStrategy with a non-positive      *)
(* lookback, a rebalance frequency other than daily, weekly or monthly, or *)
(* an empty ticker list raises a fatal configuration error at              *)
(* construction, before any simulation step runs.  So a strategy that got  *)
(* constructed has none of the three, and a construction that failed is    *)
(* followed by no simulation step.                                         *)
(***************************************************************************)
C11_Original ==
  /\ strategy.kind = "Momentum" =>
       /\ strategy.lookback_months > 0
       /\ strategy.rebalance_frequency \in {"daily", "weekly", "monthly"}
       /\ strategy.tickers # <<>>
  /\ pc = "config_error" =>
       /\ strategy = Unconstructed
       /\ day = 1 /\ equity = <<>> /\ cash_over_time = <<>> /\ ncalls = 0

(***************************************************************************)
(* C14: two backtest runs over the same price history, each with its own   *)
(* ledger and strategy instance, do not interfere: however their steps are *)
(* interleaved, each run ends with the equity curve, the cash curve and    *)
(* the transaction log it has when run alone, and no step of either        *)
(* changes the shared history.                                             *)
(***************************************************************************)
C14_Result(r) ==
  [pc |-> r.pc, equity |-> r.equity, cash_over_time |-> r.cash_over_time,
   transactions |-> r.transactions]

C14_SameAsAlone(r) ==
  r.pc \in {"done", "aborted"}
    => C14_Result(r) = SoloRun(r.strategy, data, r.initial_cash)

C14_NoInterference ==
  /\ [](C14_SameAsAlone(RunState) /\ C14_SameAsAlone(other_run))
  /\ [][data' = data]_vars

\* both runs are over, both have traded, and they end with different
\* transaction logs and holdings
C14_Witness ==
  /\ pc = "done"
  /\ other_run.pc = "done"
  /\ transactions # <<>>
  /\ other_run.transactions # <<>>
  /\ Len(transactions) # Len(other_run.transactions)
  /\ holdings # other_run.holdings

(***************************************************************************)
(* C21 as stated: the equity-curve value recorded for a trading day is the *)
(* ledger's cash plus the holdings value at that day's prices (the sum     *)
(* over the held tickers that have a valid price that day), taken after    *)
(* all of the day's orders, and the cash-curve value is the ledger's cash  *)
(* at that same moment.  Stated of the latest recorded day, until the next *)
(* day's orders begin.                                                     *)
(***************************************************************************)
C21_Recorded ==
  /\ InRun
  /\ pc \in {"signals", "done", "aborted"}
  /\ equity # <<>>

C21_Original ==
  C21_Recorded =>
    LET n == Len(equity)
    IN /\ Len(cash_over_time) = n
       /\ equity[n].date = data[n].date
       /\ cash_over_time[n].date = data[n].date
       /\ cash_over_time[n].value = cash
       /\ equity[n].value
            = cash_over_time[n].value
              + C13_ValidValue(holdings, data[n].close)

(***************************************************************************)
(* C22: on a rebalance day whose lookback window [date - lookback_months,  *)
(* date) holds no row, or in which no configured ticker has two valid      *)
(* prices, the MomentumStrategy returns the empty signal, and the ledger   *)
(* is not changed by that day: no transaction bears its date and the cash  *)
(* is the cash of the day before.                                          *)
(***************************************************************************)
\* the rows of the lookback window of the current day
C22_Window ==
  {j \in 1..Len(data) :
     /\ DateGE(data[j].date,
               MinusMonths(data[day].date, strategy.lookback_months))
     /\ DateLT(data[j].date, data[day].date)}

\* the configured tickers with at least two valid prices in the window
C22_Scorable ==
  {t \in {strategy.tickers[k] : k \in 1..Len(strategy.tickers)} :
     /\ t \in DOMAIN data[1].close
     /\ Cardinality({j \in C22_Window : data[j].close[t] \in ValidPrices}) >= 2}

C22_NoMomentumData ==
  /\ strategy.kind = "Momentum"
  /\ pc # "signals"
  /\ IsRebalanceDay(data, day, strategy.rebalance_frequency)
  /\ C22_Scorable = {}

C22_NoOpRebalance ==
  C22_NoMomentumData =>
    /\ pc # "aborted"
    /\ signals = <<>>
    /\ \A k \in 1..Len(transactions) : transactions[k].date # data[day].date
    /\ cash = IF day = 1 THEN initial_cash
              ELSE cash_over_time[day - 1].value

\* a rebalance day whose window has rows, one ticker having a single valid
\* price in it and the other none
C22_Witness ==
  /\ C22_NoMomentumData
  /\ pc = "record"
  /\ C22_Window # {}
  /\ DOMAIN data[1].close = Tickers
  /\ \E j \in C22_Window : data[j].close[strategy.tickers[1]] = NaN
  /\ \E j \in C22_Window : data[j].close[strategy.tickers[2]] \in ValidPrices

(***************************************************************************)
(* C23: after any sequence of execute_transaction calls, the cash is       *)
(* initial_cash plus the recorded notionals of the SELL transactions minus *)
(* those of the BUY transactions of the log, and for every ticker the      *)
(* quantity held is the recorded BUY quantity minus the recorded SELL      *)
(* quantity.                                                               *)
(***************************************************************************)
\* the sum of the recorded quantities of the transactions of ticker tagged
\* action
RECURSIVE C23_Quantity(_, _, _)
C23_Quantity(tx, ticker, action) ==
  IF tx = <<>> THEN 0
  ELSE C23_Quantity(SubSeq(tx, 1, Len(tx) - 1), ticker, action)
       + (IF tx[Len(tx)].ticker = ticker /\ tx[Len(tx)].action = action
            THEN tx[Len(tx)].quantity ELSE 0)

C23_LedgerMatchesLog ==
  /\ cash = initial_cash + Notional(transactions, "SELL")
                         - Notional(transactions, "BUY")
  /\ \A t \in Tickers :
       DictGet(holdings, t) = C23_Quantity(transactions, t, "BUY")
                              - C23_Quantity(transactions, t, "SELL")

\* a client bought shares of a ticker and sold a part of them, and one of
\* its calls was refused or had quantity zero
C23_Witness ==
  /\ strategy.kind = "Client"
  /\ \E t \in Tickers :
       /\ C23_Quantity(transactions, t, "SELL") > 0
       /\ C23_Quantity(transactions, t, "BUY")
            > C23_Quantity(transactions, t, "SELL")
       /\ DictGet(holdings, t) > 0
  /\ ncalls > Len(transactions)

(***************************************************************************)
(* C24: within the signal of one day of a MomentumStrategy the engine      *)
(* executes every liquidation sell before the winner's buy, so that on a   *)
(* day on which every price is valid and positive the winner's buy, sized  *)
(* from the total value before the trades, is not rejected for             *)
(* insufficient cash.                                                      *)
(***************************************************************************)
\* every ticker of the history has a valid price on the current day
C24_AllPricesValid ==
  \A t \in DOMAIN data[day].close : data[day].close[t] \in ValidPrices

\* a BUY of quantity shares of ticker is recorded for the current day
C24_BoughtToday(ticker, quantity) ==
  \E k \in 1..Len(transactions) :
     /\ transactions[k].date = data[day].date
     /\ transactions[k].ticker = ticker
     /\ transactions[k].action = "BUY"
     /\ transactions[k].quantity = quantity

C24_SellsBeforeBuy ==
  (strategy.kind = "Momentum" /\ pc \in {"orders", "record"}) =>
    /\ \A j, k \in 1..Len(signals) :
         (signals[j].quantity < 0 /\ signals[k].quantity > 0) => j < k
    /\ (pc = "record" /\ C24_AllPricesValid) =>
         \A k \in 1..Len(signals) :
            signals[k].quantity > 0
              => C24_BoughtToday(signals[k].ticker, signals[k].quantity)

\* the day's signal was a sell followed by the winner's buy, which the cash
\* on hand before the sell did not cover, and both were executed
C24_Witness ==
  /\ strategy.kind = "Momentum"
  /\ pc = "record"
  /\ C24_AllPricesValid
  /\ Len(signals) = 2
  /\ signals[1].quantity < 0
  /\ signals[2].quantity > 0
  /\ Len(transactions) >= 2
  /\ LastTransaction.action = "BUY"
  /\ LastTransaction.date = data[day].date
  /\ transactions[Len(transactions) - 1].action = "SELL"
  /\ transactions[Len(transactions) - 1].date = data[day].date
  /\ cash_over_time[day - 1].value < LastTransaction.cost

(***************************************************************************)
(* C25: no strategy looks ahead.  For each of the three strategies, from   *)
(* one ledger and strategy state, the signal generated for a date d is the *)
(* same on two histories that agree on every record dated on or before d.  *)
(* Two such histories have the same records up to d, so the property is    *)
(* that the signal generated on the full history is the one generated on   *)
(* the history cut after d.                                                *)
(***************************************************************************)
\* what generate_signals does for the current day on the history d, from
\* the current ledger and strategy state
C25_SignalOn(d) ==
  IF strategy.kind = "BuyAndHold"
    THEN [raised  |-> FALSE,
          signals |-> IF ~invested
                        THEN BuyAndHoldSignals(strategy.tickers,
                                               strategy.amount, d[day])
                        ELSE <<>>]
  ELSE IF strategy.kind = "Monthly"
    THEN [raised  |-> FALSE,
          signals |-> IF MonthlyBuys(d, day, strategy.tickers[1],
                                     strategy.amount, last_investment_month)
                        THEN << [ticker   |-> strategy.tickers[1],
                                 quantity |-> strategy.amount
                                   \div d[day].close[strategy.tickers[1]]] >>
                        ELSE <<>>]
  ELSE LET out == MomentumOutcome(strategy, d, day, cash, holdings)
       IN [raised |-> out.raised, signals |-> out.signals]

C25_NoLookAhead ==
  [][ (InRun /\ pc = "signals") =>
        [raised  |-> pc' = "aborted",
         signals |-> IF pc' = "aborted" THEN <<>> ELSE signals']
          = C25_SignalOn(SubSeq(data, 1, day)) ]_vars

\* a buy was signalled on a date after which the history has another date
\* of the same month, at another price
C25_Witness ==
  /\ InRun
  /\ pc = "orders"
  /\ cursor = 1
  /\ signals # <<>>
  /\ \E j \in (day + 1)..Len(data) :
       /\ data[j].date.month = data[day].date.month
       /\ data[j].close # data[day].close

(***************************************************************************)
(* C26: in a run of a MomentumStrategy, at the end of every rebalance day  *)
(* on which a winner was selected and the winner and every ticker held     *)
(* have valid positive prices, the ledger holds at most one ticker, and    *)
(* that ticker is the winner.                                              *)
(***************************************************************************)
\* the end of such a day: the tickers held before the day's trades are the
\* ones that are sold or still held
C26_EndOfRebalanceDay ==
  /\ strategy.kind = "Momentum"
  /\ pc = "record"
  /\ winner # NoTicker
  /\ \A t \in {winner} \cup DictKeys(signals) \cup DictKeys(holdings) :
       ValidPriceToday(t)

C26_HoldsOnlyWinner ==
  C26_EndOfRebalanceDay =>
    /\ DictKeys(holdings) \subseteq {winner}
    /\ Len(holdings) <= 1

\* a rotation: the ticker held was sold today and the winner, another
\* ticker, is the only one held
C26_Witness ==
  /\ C26_EndOfRebalanceDay
  /\ DictKeys(holdings) = {winner}
  /\ \E t \in Tickers \ {winner}, q \in 1..MaxCash : SoldToday(t, q)

====
